---- MODULE Spec2Model ----
(***************************************************************************)
(* process-tracker: the running-time ledger kept in SQLite (src/db.rs),    *)
(* the window snapshot that feeds it (src/processes.rs) and the process    *)
(* aggregation of src/main.rs.                                             *)
(*                                                                         *)
(* Time is in whole seconds (CURRENT_TIMESTAMP and                         *)
(* SystemTime::UNIX_EPOCH.elapsed().as_secs() both have second             *)
(* resolution), counted from the moment the database file is created.      *)
(***************************************************************************)
EXTENDS Integers, Sequences, FiniteSets, TLC

\* ------------------------------------------------------------------ bounds

\* Poll cycles per behaviour.
MaxCycles == 3
\* Visible windows reported by one EnumWindows pass.
MaxWindows == 2

\* Processes in one sysinfo refresh handed to the aggregation of src/main.rs.
MaxProcesses == 3

\* Window titles and executable paths the snapshot provider may report.
Titles == {"a", "b - c"}
Paths == {"p", "q"}

\* Values of PT_INTERVAL (seconds) the ledger is run with: the default and
\* half an hour, both inside the accepted range 1..3600.
Intervals == {10, 1800}

\* datetime('now', '-1 hour')
HOUR == 3600

\* Poll cycles per behaviour in which writes may fail.
MaxFaultCycles == 2

\* Durations PT_INTERVAL is tried with lie on a grid of quarter seconds, up to
\* MaxQuarters quarters above zero and around one hour.
MaxQuarters == 24

\* ------------------------------------------------------------------- state

VARIABLES
    query_interval,  \* QUERY_INTERVAL.as_secs()
    now,             \* the system clock, seconds
    processes,       \* table processes: sequence of rows, in rowid order
    process_times,   \* table process_times: sequence of rows, in rowid order
    process_list,    \* the Vec<Process> handed to the last update_processes
    cycles,          \* number of poll cycles run so far
    pc,              \* position in the poll loop: "poll" or "sleep"
    system_processes,  \* main.rs: system.processes().values(), in iteration order
    agg_index,         \* main.rs: number of processes the for loop has consumed
    agg_list,          \* main.rs: process_list of process_process_list
    pt_interval,     \* the environment variable PT_INTERVAL
    outcome,         \* how the last update_processes ended: "ok", "err", "panic"
    call_args,       \* the arguments of the function call under study
    call_result,     \* what that call returned
    call_pc          \* "call" before the call, "return" after it

ledger_vars == <<query_interval, now, processes, process_times, process_list, cycles, pc>>
agg_vars == <<system_processes, agg_index, agg_list>>
aux_vars == <<pt_interval, outcome, call_args, call_result, call_pc>>
vars == <<ledger_vars, agg_vars, aux_vars>>

\* The values of the variables a specification does not use.
AuxInit ==
    /\ outcome = "ok"
    /\ call_args = <<>>
    /\ call_result = <<>>
    /\ call_pc = "return"

Range(s) == {s[i] : i \in DOMAIN s}

\* ------------------------------------------------- src/processes.rs snapshot

\* A window as enum_windows_callback pushes it: (title, path). It pushes
\* only windows with a title (GetWindowTextW > 0).
Windows == [title : Titles, path : Paths]

RECURSIVE WindowLists(_)
WindowLists(n) ==
    IF n = 0 THEN {<<>>}
    ELSE WindowLists(n - 1) \cup
         {Append(w, x) : w \in {v \in WindowLists(n - 1) : Len(v) = n - 1}, x \in Windows}

\* PT_INTERVAL as the program reads it: std::env::var fails (unset), or
\* humantime::parse_duration fails on its text, or the text is a duration,
\* here in milliseconds.
EnvUnset == [var |-> "unset"]
EnvText == [var |-> "text"]
EnvDuration(ms) == [var |-> "duration", millis |-> ms]

DurationsMs ==
    {250 * k : k \in 0..MaxQuarters}
    \cup {3600000 + 250 * k : k \in (0 - MaxQuarters)..MaxQuarters}
    \cup {10000, 1800000}
EnvValues == {EnvUnset, EnvText} \cup {EnvDuration(ms) : ms \in DurationsMs}

\* Duration::as_secs drops the fraction of a second.
as_secs(ms) == ms \div 1000

\* The range test of QUERY_INTERVAL, as it compares whole seconds.
check_interval_secs(ms) ==
    IF as_secs(ms) > 3600
    THEN [ok |-> FALSE, panic |-> "PT_INTERVAL env var is too large"]
    ELSE IF as_secs(ms) < 1
         THEN [ok |-> FALSE, panic |-> "PT_INTERVAL env var is too small"]
         ELSE [ok |-> TRUE, millis |-> ms]

\* The initialiser of the Lazy QUERY_INTERVAL: the interval, or the panic.
QUERY_INTERVAL(env) ==
    IF env.var = "unset"
    THEN check_interval_secs(10000)
    ELSE IF env.var = "text"
         THEN [ok |-> FALSE, panic |-> "PT_INTERVAL env var is not a valid duration"]
         ELSE check_interval_secs(env.millis)

SPECIAL_CASES == <<<<"Spotify.exe", "Spotify">>, <<"datagrip64.exe", "DataGrip">>>>

\* str::ends_with
ends_with(s, suffix) ==
    /\ Len(suffix) <= Len(s)
    /\ SubSeq(s, Len(s) - Len(suffix) + 1, Len(s)) = suffix

\* str::contains
contains(s, pat) ==
    \E i \in 1..(Len(s) - Len(pat) + 1) : SubSeq(s, i, i + Len(pat) - 1) = pat

\* s.split(pat).last(): what follows the last match of pat, matches being
\* taken from the left without overlap.
RECURSIVE split_last(_, _)
split_last(s, pat) ==
    IF ~ contains(s, pat) THEN s
    ELSE LET i == CHOOSE k \in 1..(Len(s) - Len(pat) + 1) :
                      /\ SubSeq(s, k, k + Len(pat) - 1) = pat
                      /\ \A j \in 1..(k - 1) : SubSeq(s, j, j + Len(pat) - 1) # pat
         IN  split_last(SubSeq(s, i + Len(pat), Len(s)), pat)

\* The outcome of pretty_process_name when it reaches panic!.
Panicked == "panic!"

\* pretty_process_name(path, title): the special cases, then the window
\* title; with an empty title it panics (the code after panic! is dead).
pretty_process_name(path, title) ==
    IF \E i \in DOMAIN SPECIAL_CASES : ends_with(path, SPECIAL_CASES[i][1])
    THEN LET i == CHOOSE k \in DOMAIN SPECIAL_CASES :
                      /\ ends_with(path, SPECIAL_CASES[k][1])
                      /\ \A j \in 1..(k - 1) : ~ ends_with(path, SPECIAL_CASES[j][1])
         IN  SPECIAL_CASES[i][2]
    ELSE IF contains(title, " - ") THEN split_last(title, " - ")
    ELSE IF Len(title) > 0 THEN title
    ELSE Panicked

\* get_process_list: keeps the first window of every path; the window title
\* becomes Process.name.
RECURSIVE filter_map(_, _, _)
filter_map(windows, i, seen_paths) ==
    IF i > Len(windows) THEN <<>>
    ELSE IF windows[i].path \notin seen_paths
         THEN <<[name |-> windows[i].title,
                  pretty_name |-> pretty_process_name(windows[i].path, windows[i].title),
                  path |-> windows[i].path]>>
              \o filter_map(windows, i + 1, seen_paths \cup {windows[i].path})
         ELSE filter_map(windows, i + 1, seen_paths)

get_process_list(windows) == filter_map(windows, 1, {})

\* Every process list get_process_list can return for the window lists above.
ProcessLists == {get_process_list(windows) : windows \in WindowLists(MaxWindows)}

\* ------------------------------------------------------------ src/db.rs

\* get_new_running_time(created_at, running_time) at clock value t, in a
\* build without overflow checks.  The subtraction is on u64: with t below
\* created_at it wraps to 2^64 - (created_at - t), which is above twice any
\* accepted interval (at most 7200).
get_new_running_time(created_at, running_time, t) ==
    LET wrapped == t < created_at
        elapsed_time == t - created_at
    IN  IF wrapped \/ elapsed_time > query_interval * 2
        THEN running_time + query_interval
        ELSE running_time + elapsed_time

\* The rows of process_times the WHERE clause keeps.
RecentRows(times, t) == {r \in Range(times) : r.created_at > t - HOUR}

\* One result row of the SELECT ... GROUP BY process_id, path for process pid:
\* MAX(created_at) of its recent rows, and running_time taken from a row that
\* holds that maximum (the newest such row).
last_process(procs, times, t, pid) ==
    LET rows == {r \in RecentRows(times, t) : r.process_id = pid}
        top  == CHOOSE r \in rows :
                    \A o \in rows : \/ o.created_at < r.created_at
                                    \/ (o.created_at = r.created_at /\ o.id <= r.id)
        proc == CHOOSE p \in Range(procs) : p.id = pid
    IN  [path |-> proc.path, process_id |-> pid,
         running_time |-> top.running_time, created_at |-> top.created_at]

\* The result set of last_processes_stmt (INNER JOIN: only process ids that
\* have a processes row).
last_processes(procs, times, t) ==
    {last_process(procs, times, t, pid) :
        pid \in {r.process_id : r \in RecentRows(times, t)} \cap {p.id : p \in Range(procs)}}

\* found_processes without the find: every result row counts as found.
found_processes_without_find(procs, times, t, list) ==
    last_processes(procs, times, t)

\* The result rows for which process_list.iter().find(|p| p.path == path) is Some.
found_processes(procs, times, t, list) ==
    {lp \in last_processes(procs, times, t) : \E p \in Range(list) : p.path = lp.path}

\* First loop: UPDATE process_times SET running_time = ?1 WHERE process_id = ?2
\* for every found result row.
update_running_times(procs, times, t, list) ==
    LET found == found_processes(procs, times, t, list)
    IN  [i \in DOMAIN times |->
            IF \E lp \in found : lp.process_id = times[i].process_id
            THEN LET lp == CHOOSE l \in found : l.process_id = times[i].process_id
                 IN  [times[i] EXCEPT !.running_time =
                         get_new_running_time(lp.created_at, lp.running_time, t)]
            ELSE times[i]]

\* existing_processes after the first loop.
existing_processes(procs, times, t, list) ==
    {lp.path : lp \in found_processes(procs, times, t, list)}

\* select_process_ids with the lookup made by path: WHERE path = ?1.
select_process_ids_by_path(procs, process) ==
    {p.id : p \in {q \in Range(procs) : q.path = process.path}}

\* SELECT id FROM processes WHERE name = ?1: the ids of the rows it matches.
select_process_ids(procs, process) ==
    {p.id : p \in {q \in Range(procs) : q.name = process.name}}

\* Second loop, from element i of process_list on: skip the paths of
\* existing_processes; look the name up in processes and insert a processes
\* row when there is none; insert a process_times row (running_time 0,
\* created_at CURRENT_TIMESTAMP).
RECURSIVE insert_processes(_, _, _, _, _, _)
insert_processes(list, i, existing, procs, times, t) ==
    IF i > Len(list) THEN [processes |-> procs, process_times |-> times]
    ELSE IF list[i].path \in existing
         THEN insert_processes(list, i + 1, existing, procs, times, t)
         ELSE LET ids == select_process_ids(procs, list[i])
                  process_id == IF ids = {} THEN Len(procs) + 1
                                ELSE CHOOSE x \in ids : \A y \in ids : x <= y
                  procs2 == IF ids = {}
                            THEN Append(procs, [id |-> Len(procs) + 1,
                                                name |-> list[i].name,
                                                pretty_name |-> list[i].pretty_name,
                                                path |-> list[i].path,
                                                created_at |-> t])
                            ELSE procs
                  times2 == Append(times, [id |-> Len(times) + 1,
                                           process_id |-> process_id,
                                           running_time |-> 0,
                                           created_at |-> t])
              IN  insert_processes(list, i + 1, existing, procs2, times2, t)

\* update_processes(conn, process_list) at clock value t: the database after it.
update_processes(procs, times, t, list) ==
    insert_processes(list, 1, existing_processes(procs, times, t, list),
                     procs, update_running_times(procs, times, t, list), t)

\* ------------------------------------------------------------ the poll loop

\* Clock advances between two cycles: one interval, just over two intervals,
\* and one hour (the program may have been stopped in between).
Gaps == {query_interval, 2 * query_interval + 1, HOUR}

Init ==
    /\ query_interval \in Intervals
    /\ pt_interval = (IF query_interval = 10 THEN EnvUnset ELSE EnvDuration(query_interval * 1000))
    /\ now = 0
    /\ processes = <<>>
    /\ process_times = <<>>
    /\ process_list = <<>>
    /\ cycles = 0
    /\ pc = "poll"
    /\ system_processes = <<>>
    /\ agg_index = 0
    /\ agg_list = <<>>
    /\ AuxInit

\* One cycle: take the window snapshot and update the database.
Poll ==
    /\ pc = "poll"
    /\ cycles < MaxCycles
    /\ \E list \in ProcessLists :
        LET db == update_processes(processes, process_times, now, list)
        IN  /\ process_list' = list
            /\ processes' = db.processes
            /\ process_times' = db.process_times
    /\ cycles' = cycles + 1
    /\ pc' = "sleep"
    /\ UNCHANGED <<query_interval, now>>
    /\ UNCHANGED <<agg_vars, aux_vars>>

\* The time until the next cycle starts.
Sleep ==
    /\ pc = "sleep"
    /\ cycles < MaxCycles
    /\ \E gap \in Gaps : now' = now + gap
    /\ pc' = "poll"
    /\ UNCHANGED <<query_interval, processes, process_times, process_list, cycles>>
    /\ UNCHANGED <<agg_vars, aux_vars>>

Next == Poll \/ Sleep

Spec == Init /\ [][Next]_vars

\* ------------------------------------------------------ reading the ledger
\* An identity is a process name (Process.name, column processes.name).

\* The identity has a processes row.
has_entry(procs, name) == \E p \in Range(procs) : p.name = name

\* The processes row of the identity.
identity_record(procs, name) == CHOOSE p \in Range(procs) : p.name = name

\* The process_times rows of the identity.
time_records(procs, times, name) ==
    {r \in Range(times) : r.process_id = identity_record(procs, name).id}

\* The row the SELECT of update_processes reads for the identity: the one with
\* MAX(created_at), the newest of them.
latest_record(procs, times, name) ==
    CHOOSE r \in time_records(procs, times, name) :
        \A o \in time_records(procs, times, name) :
            \/ o.created_at < r.created_at
            \/ (o.created_at = r.created_at /\ o.id <= r.id)

\* The cumulative running time stored for the identity.
cumulative_running_time(procs, times, name) ==
    latest_record(procs, times, name).running_time

\* The timestamp stored with it, from which get_new_running_time measures.
last_updated_at(procs, times, name) ==
    latest_record(procs, times, name).created_at

\* The snapshot holds a process of that name.
observed(list, name) == \E p \in Range(list) : p.name = name

\* The snapshot holds the identity exactly as the ledger recorded it: one
\* process has its name, that process has its recorded path, and no process
\* has the one without the other.
seen_as_recorded(procs, list, name) ==
    LET rec == identity_record(procs, name)
    IN  /\ \E p \in Range(list) : p.name = name /\ p.path = rec.path
        /\ \A p \in Range(list) :
               (p.name = name \/ p.path = rec.path) => (p.name = name /\ p.path = rec.path)

\* The step is one poll cycle (one update_processes call).
PollStep == pc = "poll" /\ pc' = "sleep"

\* -------------------------------------------------------------- C1
\* C1: for every identity, the cumulative running time stored after a poll
\* cycle is at least the one stored before it.
C1_NeverDecreases ==
    [][\A name \in Titles :
          has_entry(processes, name) =>
              cumulative_running_time(processes', process_times', name)
                  >= cumulative_running_time(processes, process_times, name)]_vars

\* -------------------------------------------------------------- C2
\* C2: when an identity that has a ledger entry is observed (here: exactly as
\* recorded, same name and same path) and now - lastUpdatedAt is more than two
\* polling intervals, the cycle adds exactly one polling interval to its
\* cumulative running time, however large the gap.
C2_GapCapped ==
    [][\A name \in Titles :
          ( /\ PollStep
            /\ has_entry(processes, name)
            /\ seen_as_recorded(processes, process_list', name)
            /\ now - last_updated_at(processes, process_times, name) > 2 * query_interval )
          => cumulative_running_time(processes', process_times', name)
                 = cumulative_running_time(processes, process_times, name) + query_interval]_vars

\* -------------------------------------------------------------- C3
\* C3: when an identity that has a ledger entry is observed (exactly as
\* recorded) and elapsed = now - lastUpdatedAt is at most two polling
\* intervals, the cycle adds exactly elapsed to its cumulative running time.
C3_FullElapsed ==
    [][\A name \in Titles :
          ( /\ PollStep
            /\ has_entry(processes, name)
            /\ seen_as_recorded(processes, process_list', name)
            /\ now - last_updated_at(processes, process_times, name) <= 2 * query_interval )
          => cumulative_running_time(processes', process_times', name)
                 = cumulative_running_time(processes, process_times, name)
                   + (now - last_updated_at(processes, process_times, name))]_vars

\* -------------------------------------------------------------- C4
\* The cycle runs the UPDATE of the first loop for the identity.
accrues(procs, times, t, list, name) ==
    \E lp \in found_processes(procs, times, t, list) :
        lp.process_id = identity_record(procs, name).id

\* C4: after a cycle that accrues time for an identity (observed exactly as
\* recorded), the identity's lastUpdatedAt is the time of that cycle.
C4_LastUpdatedIsCycleTime ==
    [][\A name \in Titles :
          ( /\ PollStep
            /\ has_entry(processes, name)
            /\ seen_as_recorded(processes, process_list', name)
            /\ accrues(processes, process_times, now, process_list', name) )
          => last_updated_at(processes', process_times', name) = now]_vars

\* -------------------------------------------------------------- C5
\* C5: (a) the first cycle that observes an identity without a ledger entry,
\* at a path no accrued entry holds, leaves it with an entry of cumulative
\* running time 0 and lastUpdatedAt = now; (b) when the second cycle of a
\* fresh ledger, d <= 2 x pollingInterval seconds after the first, observes an
\* identity the first cycle created (exactly as recorded), its cumulative
\* running time is then d.
C5_FirstThenElapsed ==
    [][\A name \in Titles :
          /\ ( /\ PollStep
               /\ ~ has_entry(processes, name)
               /\ observed(process_list', name)
               /\ \A p \in Range(process_list') :
                      p.name = name =>
                          p.path \notin existing_processes(processes, process_times,
                                                           now, process_list') )
             => /\ has_entry(processes', name)
                /\ cumulative_running_time(processes', process_times', name) = 0
                /\ last_updated_at(processes', process_times', name) = now
          /\ ( /\ PollStep
               /\ cycles = 1
               /\ has_entry(processes, name)
               /\ seen_as_recorded(processes, process_list', name)
               /\ now - last_updated_at(processes, process_times, name) <= 2 * query_interval )
             => cumulative_running_time(processes', process_times', name)
                    = now - last_updated_at(processes, process_times, name)]_vars

\* -------------------------------------------------------------- C6
\* The identity's entry is the same in both databases: same processes row,
\* same process_times rows with the same running_time and created_at.
same_entry(procs1, times1, procs2, times2, name) ==
    /\ has_entry(procs2, name)
    /\ identity_record(procs2, name) = identity_record(procs1, name)
    /\ time_records(procs2, times2, name) = time_records(procs1, times1, name)

C7_NoSecondRecord ==
    [][\A name \in Titles :
          ( /\ PollStep
            /\ has_entry(processes, name)
            /\ seen_as_recorded(processes, process_list', name) )
          => {r.id : r \in time_records(processes', process_times', name)}
                 = {r.id : r \in time_records(processes, process_times, name)}]_vars

\* -------------------------------------------------------------- C8
\* No two processes rows have the same name.
UniqueNames ==
    \A i, j \in DOMAIN processes : processes[i].name = processes[j].name => i = j

\* The rows a step adds to processes are for names of the snapshot that had
\* no row before the step, and no row is removed or changed.
InsertsOnlyNewNames ==
    /\ Len(processes') >= Len(processes)
    /\ SubSeq(processes', 1, Len(processes)) = processes
    /\ \A i \in (Len(processes) + 1)..Len(processes') :
           /\ observed(process_list', processes'[i].name)
           /\ ~ has_entry(processes, processes'[i].name)

IGNORED_PROCESSES ==
    {"cargo.exe", "CefSharp.BrowserSubprocess.exe", "crashpad_handler.exe",
     "explorer.exe", "GoogleDriveFS.exe", "LSB.exe", "MbamBgNativeMsg.exe",
     "mbamtray.exe", "msedgewebview2.exe", "MSPCManagerService.exe",
     "nvcontainer.exe", "NVIDIA Share.exe", "NVIDIA Web Helper.exe",
     "nvsphelper64.exe", "OneDrive.exe", "QSHelper.exe",
     "Razer Synapse Service Process.exe", "steamwebhelper.exe", "vctip.exe",
     "XboxGameBarSpotify.exe"}

\* whoami::username() of the account the tracker runs under.
username == "me"

IGNORED_PATHS ==
    {"C:\\Program Files (x86)\\Lenovo\\VantageService",
     "C:\\Program Files\\Git",
     "C:\\Program Files\\PowerToys\\PowerToys.",
     "C:\\Program Files\\WindowsApps\\MicrosoftWindows.Client",
     "C:\\Windows",
     "C:\\Users\\" \o username \o "\\.rustup",
     "C:\\Users\\" \o username \o "\\.vscode",
     "C:\\Users\\" \o username \o "\\.wakatime"}

\* str::starts_with
starts_with(s, prefix) ==
    /\ Len(prefix) <= Len(s)
    /\ SubSeq(s, 1, Len(prefix)) = prefix

\* is_relevant_process that looks for an ignored path anywhere in the path.
is_relevant_process_path_contains(name, path, status) ==
    /\ Len(path) > 0
    /\ status = "Run"
    /\ name \notin IGNORED_PROCESSES
    /\ ~ \E p \in IGNORED_PATHS : contains(path, p)

\* is_relevant_process(name, path, status) of main.rs.
is_relevant_process(name, path, status) ==
    /\ Len(path) > 0
    /\ status = "Run"
    /\ name \notin IGNORED_PROCESSES
    /\ ~ \E p \in IGNORED_PATHS : starts_with(path, p)

\* What sysinfo may report for one process: two executables whose names
\* differ in case only, each seen at two paths and with two run times, and
\* one process for each way of being irrelevant.
SysProcesses ==
    [name : {"chrome.exe", "Chrome.exe"}, path : {"C:\\a\\chrome.exe", "D:\\chrome.exe"},
     status : {"Run"}, run_time : {100, 150}, memory : {4096}]
    \cup {[name |-> "chrome.exe", path |-> "", status |-> "Run",
           run_time |-> 100, memory |-> 4096],
          [name |-> "chrome.exe", path |-> "C:\\a\\chrome.exe", status |-> "Sleep",
           run_time |-> 150, memory |-> 4096],
          [name |-> "cargo.exe", path |-> "C:\\a\\cargo.exe", status |-> "Run",
           run_time |-> 150, memory |-> 4096],
          [name |-> "chrome.exe", path |-> "C:\\Windows\\chrome.exe", status |-> "Run",
           run_time |-> 150, memory |-> 4096]}

RECURSIVE SysProcessLists(_)
SysProcessLists(n) ==
    IF n = 0 THEN {<<>>}
    ELSE SysProcessLists(n - 1) \cup
         {Append(l, x) : l \in {v \in SysProcessLists(n - 1) : Len(v) = n - 1},
                         x \in SysProcesses}

\* merge_process that leaves out p.count += 1.
merge_process_without_count(p, process) ==
    [p EXCEPT !.memory = process.memory,
              !.running_time = IF p.running_time < process.run_time
                               THEN process.run_time ELSE p.running_time]

\* merge_process that takes the running time of the last instance seen.
merge_process_last_run_time(p, process) ==
    [p EXCEPT !.count = p.count + 1,
              !.memory = process.memory,
              !.running_time = process.run_time]

\* main.rs 107-115: the entry p found for the name takes one more instance of
\* it: count + 1, the memory of this instance, the larger running time.
merge_process(p, process) ==
    [p EXCEPT !.count = p.count + 1,
              !.memory = process.memory,
              !.running_time = IF p.running_time < process.run_time
                               THEN process.run_time ELSE p.running_time]

\* main.rs 117-123: the entry pushed for a name seen for the first time.
new_process(process) ==
    [name |-> process.name, path |-> process.path, count |-> 1,
     running_time |-> process.run_time, memory |-> process.memory]

\* One iteration of the for loop of process_process_list over `process`,
\* with process_list = list.
process_one(list, process) ==
    IF ~ is_relevant_process(process.name, process.path, process.status)
    THEN list
    ELSE IF \E i \in DOMAIN list : list[i].name = process.name
         THEN LET i == CHOOSE k \in DOMAIN list :
                           /\ list[k].name = process.name
                           /\ \A j \in DOMAIN list : list[j].name = process.name => k <= j
              IN  [list EXCEPT ![i] = merge_process(list[i], process)]
         ELSE Append(list, new_process(process))

InitAgg ==
    /\ query_interval = 10
    /\ now = 0
    /\ processes = <<>>
    /\ process_times = <<>>
    /\ process_list = <<>>
    /\ cycles = 0
    /\ pc = "poll"
    /\ system_processes \in SysProcessLists(MaxProcesses)
    /\ agg_index = 0
    /\ agg_list = <<>>
    /\ pt_interval = EnvUnset
    /\ AuxInit

\* The for loop of process_process_list consumes the next process.
AggregateOne ==
    /\ agg_index < Len(system_processes)
    /\ agg_list' = process_one(agg_list, system_processes[agg_index + 1])
    /\ agg_index' = agg_index + 1
    /\ UNCHANGED system_processes
    /\ UNCHANGED <<ledger_vars, aux_vars>>

NextAgg == AggregateOne

SpecAgg == InitAgg /\ [][NextAgg]_vars

\* -------------------------------------------------------------- C9
\* The positions, among the first n processes of the refresh, of those that
\* pass is_relevant_process.
relevant(n) ==
    {k \in 1..n : is_relevant_process(system_processes[k].name,
                                      system_processes[k].path,
                                      system_processes[k].status)}

RECURSIVE sum_count(_, _)
sum_count(list, i) ==
    IF i > Len(list) THEN 0 ELSE list[i].count + sum_count(list, i + 1)

\* C9: the counts of the aggregated list add up to the number of relevant
\* processes consumed so far (at the end of the loop: of the whole refresh),
\* and every entry has count >= 1.
C9_CountsAddUp ==
    /\ sum_count(agg_list, 1) = Cardinality(relevant(agg_index))
    /\ \A i \in DOMAIN agg_list : agg_list[i].count >= 1

\* The loop has finished a refresh of relevant and irrelevant processes, some
\* of which were merged into one entry.
C9_Witness ==
    /\ agg_index = Len(system_processes)
    /\ Len(system_processes) = MaxProcesses
    /\ Cardinality(relevant(agg_index)) = MaxProcesses - 1
    /\ Len(agg_list) = 1
    /\ agg_list[1].count = MaxProcesses - 1

\* -------------------------------------------------------------- C10
\* The relevant processes of the whole refresh that have the name.
group(name) == {k \in relevant(Len(system_processes)) : system_processes[k].name = name}

\* C10: when the loop has finished, the aggregated list has exactly one entry
\* for every name (compared exactly, case included) among the relevant
\* processes and no other entry; the entry's count is the size of the name's
\* group and its running_time the largest run_time in the group.
C10_OneEntryPerName ==
    agg_index = Len(system_processes) =>
        /\ \A i, j \in DOMAIN agg_list : agg_list[i].name = agg_list[j].name => i = j
        /\ {agg_list[i].name : i \in DOMAIN agg_list}
               = {system_processes[k].name : k \in relevant(Len(system_processes))}
        /\ \A i \in DOMAIN agg_list :
               /\ agg_list[i].count = Cardinality(group(agg_list[i].name))
               /\ \E k \in group(agg_list[i].name) :
                      system_processes[k].run_time = agg_list[i].running_time
               /\ \A k \in group(agg_list[i].name) :
                      system_processes[k].run_time <= agg_list[i].running_time

\* chrome.exe seen twice, 150 s first and 100 s second, next to Chrome.exe:
\* two entries, chrome.exe with count 2 and running time 150.
C10_Witness ==
    /\ agg_index = Len(system_processes)
    /\ Len(system_processes) = 3
    /\ system_processes[1].name = "chrome.exe" /\ system_processes[1].run_time = 150
    /\ system_processes[2].name = "Chrome.exe"
    /\ system_processes[3].name = "chrome.exe" /\ system_processes[3].run_time = 100
    /\ relevant(3) = {1, 2, 3}
    /\ Len(agg_list) = 2
    /\ agg_list[1].name = "chrome.exe"
    /\ agg_list[1].count = 2
    /\ agg_list[1].running_time = 150

\* -------------------------------------------------------------- C11
\* The ledger and the aggregation at rest, for the specifications of single
\* function calls.
IdleInit ==
    /\ query_interval = 10
    /\ now = 0
    /\ processes = <<>>
    /\ process_times = <<>>
    /\ process_list = <<>>
    /\ cycles = 0
    /\ pc = "poll"
    /\ system_processes = <<>>
    /\ agg_index = 0
    /\ agg_list = <<>>
    /\ outcome = "ok"

\* Process names, executable paths and sysinfo statuses is_relevant_process
\* is called with: the ignored names and paths themselves and near misses of
\* them (other case, longer, shorter, not at the start).
FilterNames ==
    IGNORED_PROCESSES \cup {"chrome.exe", "Cargo.exe", "cargo.exe.bak", "xcargo.exe", "cargo", ""}
FilterPaths ==
    IGNORED_PATHS \cup
    {"", "C:\\a\\chrome.exe", "C:\\Windows\\System32\\cmd.exe", "C:\\Window",
     "c:\\windows\\cmd.exe", "D:\\C:\\Windows\\cmd.exe", "C:\\WindowsApps\\x.exe",
     "C:\\Program Files\\Git\\bin\\git.exe", "C:\\Program Files\\GitHub\\x.exe",
     "C:\\Users\\" \o username \o "\\.vscode\\code.exe", "C:\\Users\\you\\.vscode\\code.exe"}
FilterStatuses == {"Run", "Sleep", "Stop", "Idle"}

InitFilter ==
    /\ IdleInit
    /\ pt_interval = EnvUnset
    /\ call_args \in [name : FilterNames, path : FilterPaths, status : FilterStatuses]
    /\ call_result = FALSE
    /\ call_pc = "call"

\* process_process_list asks is_relevant_process about one process.
CallFilter ==
    /\ call_pc = "call"
    /\ call_result' = is_relevant_process(call_args.name, call_args.path, call_args.status)
    /\ call_pc' = "return"
    /\ UNCHANGED <<ledger_vars, agg_vars, pt_interval, outcome, call_args>>

NextFilter == CallFilter

SpecFilter == InitFilter /\ [][NextFilter]_vars

\* The four reasons of rejection, spelled out on the record.
path_is_empty(r) == r.path = ""
not_running(r) == r.status # "Run"
name_is_blocked(r) == \E b \in IGNORED_PROCESSES : r.name = b
path_has_blocked_prefix(r) ==
    \E b \in IGNORED_PATHS :
        /\ Len(r.path) >= Len(b)
        /\ \A i \in 1..Len(b) : SubSeq(r.path, i, i) = SubSeq(b, i, i)

\* C11: the filter rejects a record if and only if its path is empty, or its
\* status is not running, or its name is exactly a blocked name, or its path
\* starts with a blocked prefix.
C11_RejectsExactly ==
    call_pc = "return" =>
        ( (call_result = FALSE)
          <=> ( \/ path_is_empty(call_args)
                \/ not_running(call_args)
                \/ name_is_blocked(call_args)
                \/ path_has_blocked_prefix(call_args) ) )

\* A running process with a free name whose path holds C:\Windows, but not
\* at its start, was accepted.
C11_Witness ==
    /\ call_pc = "return"
    /\ call_args.name = "Cargo.exe"
    /\ call_args.path = "D:\\C:\\Windows\\cmd.exe"
    /\ call_args.status = "Run"
    /\ call_result = TRUE

\* -------------------------------------------------------------- C12
InitInterval ==
    /\ IdleInit
    /\ pt_interval \in EnvValues
    /\ call_args = <<>>
    /\ call_result = [ok |-> FALSE, panic |-> ""]
    /\ call_pc = "call"

\* The first dereference of QUERY_INTERVAL runs its initialiser.
ForceInterval ==
    /\ call_pc = "call"
    /\ call_result' = QUERY_INTERVAL(pt_interval)
    /\ call_pc' = "return"
    /\ UNCHANGED <<ledger_vars, agg_vars, pt_interval, outcome, call_args>>

NextInterval == ForceInterval

SpecInterval == InitInterval /\ [][NextInterval]_vars

\* C12: the interval is accepted if and only if PT_INTERVAL parses as a
\* duration d with 1 s <= d <= 3600 s, both ends inclusive, so that 3600 s
\* and a fraction is rejected; an unset PT_INTERVAL gives 10 s; every other
\* value ends in the fatal error.
C12_AcceptedRange ==
    call_pc = "return" =>
        IF pt_interval.var = "unset"
        THEN call_result = [ok |-> TRUE, millis |-> 10000]
        ELSE IF pt_interval.var = "duration"
                 /\ 1000 <= pt_interval.millis
                 /\ pt_interval.millis <= 3600000
             THEN call_result = [ok |-> TRUE, millis |-> pt_interval.millis]
             ELSE ~ call_result.ok

\* -------------------------------------------------------------- C13
\* QUERY_INTERVAL is a Lazy static: its initialiser, with the validation of
\* PT_INTERVAL, runs at the first dereference, and the only dereferences are
\* those of get_new_running_time (src/db.rs:125-126).  query_interval = 0
\* stands for the cell before that (an accepted interval is at least 1 s).
ConfigEnv == {EnvUnset, EnvText, EnvDuration(0), EnvDuration(1800000), EnvDuration(3601000)}

\* Clock advances between two cycles: the sleep of the main loop, and one hour.
ConfigGaps == {5, HOUR}

InitConfig ==
    /\ query_interval = 0
    /\ pt_interval \in ConfigEnv
    /\ now = 0
    /\ processes = <<>>
    /\ process_times = <<>>
    /\ process_list = <<>>
    /\ cycles = 0
    /\ pc = "poll"
    /\ system_processes = <<>>
    /\ agg_index = 0
    /\ agg_list = <<>>
    /\ AuxInit

\* A cycle that does not reach get_new_running_time (no result row is found
\* in the snapshot), or reaches it with QUERY_INTERVAL initialised.
ConfigPoll ==
    /\ pc = "poll"
    /\ cycles < MaxCycles
    /\ \E list \in ProcessLists :
        /\ found_processes(processes, process_times, now, list) = {} \/ query_interval # 0
        /\ LET db == update_processes(processes, process_times, now, list)
           IN  /\ process_list' = list
               /\ processes' = db.processes
               /\ process_times' = db.process_times
    /\ cycles' = cycles + 1
    /\ pc' = "sleep"
    /\ UNCHANGED <<query_interval, now>>
    /\ UNCHANGED <<agg_vars, aux_vars>>

\* The first call of get_new_running_time dereferences QUERY_INTERVAL: the
\* initialiser returns the interval, or panics.  No statement of the cycle
\* has written yet.
ConfigForce ==
    /\ pc = "poll"
    /\ cycles < MaxCycles
    /\ query_interval = 0
    /\ \E list \in ProcessLists :
        /\ found_processes(processes, process_times, now, list) # {}
        /\ process_list' = list
    /\ LET init == QUERY_INTERVAL(pt_interval)
       IN  IF init.ok
           THEN /\ query_interval' = as_secs(init.millis)
                /\ pc' = "forced"
                /\ UNCHANGED outcome
           ELSE /\ pc' = "aborted"
                /\ outcome' = "panic"
                /\ UNCHANGED query_interval
    /\ UNCHANGED <<now, processes, process_times, cycles>>
    /\ UNCHANGED <<agg_vars, pt_interval, call_args, call_result, call_pc>>

\* The rest of the cycle in which QUERY_INTERVAL was initialised.
ConfigResume ==
    /\ pc = "forced"
    /\ LET db == update_processes(processes, process_times, now, process_list)
       IN  /\ processes' = db.processes
           /\ process_times' = db.process_times
    /\ cycles' = cycles + 1
    /\ pc' = "sleep"
    /\ UNCHANGED <<query_interval, now, process_list>>
    /\ UNCHANGED <<agg_vars, aux_vars>>

ConfigSleep ==
    /\ pc = "sleep"
    /\ cycles < MaxCycles
    /\ \E gap \in ConfigGaps : now' = now + gap
    /\ pc' = "poll"
    /\ UNCHANGED <<query_interval, processes, process_times, process_list, cycles>>
    /\ UNCHANGED <<agg_vars, aux_vars>>

NextConfig == ConfigPoll \/ ConfigForce \/ ConfigResume \/ ConfigSleep

SpecConfig == InitConfig /\ [][NextConfig]_vars

\* C13: an invalid PT_INTERVAL is reported at startup, never mid-run: when
\* the fatal error is raised, no cycle has run and the ledger has not been
\* written.
C13_ReportedAtStartup ==
    pc = "aborted" =>
        /\ cycles = 0
        /\ processes = <<>>
        /\ process_times = <<>>

\* ---------------------------------------------------- C14, C15: failures
\* update_processes statement by statement.  Every write is its own
\* transaction (conn.execute in autocommit mode, no BEGIN anywhere) and every
\* statement result passes through `?`: a failing write ends the function
\* with Err, and what was written before stays.

\* A created_at text that is not "%Y-%m-%d %H:%M:%S" (the database file was
\* edited from outside) and that compares above every timestamp, as a text
\* starting with a letter does: it passes the WHERE clause and is the MAX of
\* its group.
Malformed == 1000000

\* parse_from_str that falls back to the epoch of the model.
parse_from_str_or_default(created_at) ==
    IF created_at = Malformed
    THEN [ok |-> TRUE, timestamp |-> 0]
    ELSE [ok |-> TRUE, timestamp |-> created_at]

\* NaiveDateTime::parse_from_str(&created_at, "%Y-%m-%d %H:%M:%S")
parse_from_str(created_at) ==
    IF created_at = Malformed
    THEN [ok |-> FALSE]
    ELSE [ok |-> TRUE, timestamp |-> created_at]

\* The found result rows in the order the cursor yields them: GROUP BY
\* process_id, path reads the groups in the order of process_id.
RECURSIVE rows_in_order(_)
rows_in_order(rows) ==
    IF rows = {} THEN <<>>
    ELSE LET first == CHOOSE r \in rows : \A o \in rows : r.process_id <= o.process_id
         IN  <<first>> \o rows_in_order(rows \ {first})

\* Writes that succeed in the most: no cycle makes more of them than two for
\* each window.
MaxWrites == 2 * MaxWindows

\* First loop from result row i on, `budget` writes still succeeding.
RECURSIVE update_rows(_, _, _, _, _)
update_rows(rows, i, times, t, budget) ==
    IF i > Len(rows) THEN [process_times |-> times, outcome |-> "ok", budget |-> budget]
    ELSE LET parsed == parse_from_str(rows[i].created_at)
         IN  IF ~ parsed.ok
             THEN [process_times |-> times, outcome |-> "panic", budget |-> budget]
             ELSE IF budget = 0
             THEN [process_times |-> times, outcome |-> "err", budget |-> budget]
             ELSE LET running_time ==
                          get_new_running_time(parsed.timestamp, rows[i].running_time, t)
                      times2 == [j \in DOMAIN times |->
                                    IF times[j].process_id = rows[i].process_id
                                    THEN [times[j] EXCEPT !.running_time = running_time]
                                    ELSE times[j]]
                  IN  update_rows(rows, i + 1, times2, t, budget - 1)

\* Second loop from element i of process_list on, `budget` writes still
\* succeeding.
RECURSIVE insert_rows(_, _, _, _, _, _, _)
insert_rows(list, i, existing, procs, times, t, budget) ==
    IF i > Len(list)
    THEN [processes |-> procs, process_times |-> times, outcome |-> "ok"]
    ELSE IF list[i].path \in existing
    THEN insert_rows(list, i + 1, existing, procs, times, t, budget)
    ELSE LET ids == select_process_ids(procs, list[i])
             inserts == IF ids = {} THEN 1 ELSE 0
             process_id == IF ids = {} THEN Len(procs) + 1
                           ELSE CHOOSE x \in ids : \A y \in ids : x <= y
             procs2 == IF ids = {}
                       THEN Append(procs, [id |-> Len(procs) + 1,
                                           name |-> list[i].name,
                                           pretty_name |-> list[i].pretty_name,
                                           path |-> list[i].path,
                                           created_at |-> t])
                       ELSE procs
             times2 == Append(times, [id |-> Len(times) + 1,
                                      process_id |-> process_id,
                                      running_time |-> 0,
                                      created_at |-> t])
         IN  IF budget < inserts
             THEN [processes |-> procs, process_times |-> times, outcome |-> "err"]
             ELSE IF budget < inserts + 1
             THEN [processes |-> procs2, process_times |-> times, outcome |-> "err"]
             ELSE insert_rows(list, i + 1, existing, procs2, times2, t, budget - inserts - 1)

\* update_processes of which the first `budget` writes succeed and the next
\* one fails: the database it leaves and how it ends.
update_processes_until(procs, times, t, list, budget) ==
    LET rows == rows_in_order(found_processes(procs, times, t, list))
        first == update_rows(rows, 1, times, t, budget)
    IN  IF first.outcome # "ok"
        THEN [processes |-> procs, process_times |-> first.process_times,
              outcome |-> first.outcome]
        ELSE insert_rows(list, 1, {r.path : r \in Range(rows)}, procs,
                         first.process_times, t, first.budget)

FaultGaps == {query_interval, HOUR}

InitFault ==
    /\ query_interval = 10
    /\ pt_interval = EnvUnset
    /\ now = 0
    /\ processes = <<>>
    /\ process_times = <<>>
    /\ process_list = <<>>
    /\ cycles = 0
    /\ pc = "poll"
    /\ system_processes = <<>>
    /\ agg_index = 0
    /\ agg_list = <<>>
    /\ outcome = "ok"
    /\ call_args = [budget |-> MaxWrites]
    /\ call_result = <<>>
    /\ call_pc = "return"

\* One cycle in which the storage lets `budget` writes through (MaxWrites:
\* all of them).  After Err the program, or its next run, polls again; a
\* panic ends it.
FaultPoll ==
    /\ pc = "poll"
    /\ cycles < MaxFaultCycles
    /\ \E list \in ProcessLists, budget \in 0..MaxWrites :
        LET db == update_processes_until(processes, process_times, now, list, budget)
        IN  /\ budget < MaxWrites => db.outcome = "err"
            /\ process_list' = list
            /\ call_args' = [budget |-> budget]
            /\ processes' = db.processes
            /\ process_times' = db.process_times
            /\ outcome' = db.outcome
            /\ pc' = IF db.outcome = "panic" THEN "aborted" ELSE "sleep"
    /\ cycles' = cycles + 1
    /\ UNCHANGED <<query_interval, now>>
    /\ UNCHANGED <<agg_vars, pt_interval, call_result, call_pc>>

\* Between two cycles the created_at of one row is overwritten from outside
\* with a text that is no timestamp.
Tamper ==
    /\ pc = "sleep"
    /\ cycles < MaxFaultCycles
    /\ \A i \in DOMAIN process_times : process_times[i].created_at # Malformed
    /\ \E i \in DOMAIN process_times :
        process_times' = [process_times EXCEPT ![i].created_at = Malformed]
    /\ UNCHANGED <<query_interval, now, processes, process_list, cycles, pc>>
    /\ UNCHANGED <<agg_vars, aux_vars>>

FaultSleep ==
    /\ pc = "sleep"
    /\ cycles < MaxFaultCycles
    /\ \E gap \in FaultGaps : now' = now + gap
    /\ pc' = "poll"
    /\ UNCHANGED <<query_interval, processes, process_times, process_list, cycles>>
    /\ UNCHANGED <<agg_vars, aux_vars>>

NextFault == FaultPoll \/ Tamper \/ FaultSleep

SpecFault == InitFault /\ [][NextFault]_vars

\* A step that is one cycle of update_processes.
FaultStep == pc = "poll" /\ pc' # "poll"

\* The cycle of this step reaches the parse of a malformed timestamp: result
\* row k holds one, and the writes for the rows before it succeed.
reaches_malformed(k) ==
    LET rows == rows_in_order(found_processes(processes, process_times, now, process_list'))
    IN  /\ k \in 1..Len(rows)
        /\ rows[k].created_at = Malformed
        /\ call_args'.budget >= k - 1

\* The process_times rows of the process of result row k are left as they were.
rows_untouched(k) ==
    LET rows == rows_in_order(found_processes(processes, process_times, now, process_list'))
    IN  /\ Len(process_times') = Len(process_times)
        /\ \A j \in DOMAIN process_times :
               process_times[j].process_id = rows[k].process_id
                   => process_times'[j] = process_times[j]

\* C14 as stated: when a persisted timestamp cannot be parsed, no accrual is
\* made from it and the failure comes back to the caller of update_processes
\* as an error outcome.
C14_SurfacedAsError ==
    [][\A k \in 1..MaxWrites :
          FaultStep /\ reaches_malformed(k) => outcome' = "err" /\ rows_untouched(k)]_vars

\* C14, amended: when a persisted timestamp cannot be parsed, no accrual is
\* made from it, the records of its process stay as they were, and
\* update_processes does not return: the unwrap of the parse result panics.
C14_PanicsWithoutAccrual ==
    [][\A k \in 1..MaxWrites :
          FaultStep /\ reaches_malformed(k)
              => outcome' = "panic" /\ pc' = "aborted" /\ rows_untouched(k)]_vars

\* A cycle met a malformed timestamp in the second result row, after the
\* UPDATE for the first one.
C14_Witness ==
    /\ pc = "aborted"
    /\ outcome = "panic"
    /\ \E i, j \in DOMAIN process_times :
        /\ process_times[i].created_at = Malformed
        /\ process_times[j].process_id < process_times[i].process_id
        /\ process_times[j].running_time > 0

\* C15: a failed write is cycle-scoped: when update_processes ends with an
\* error part-way through a cycle, the ledger is as it was before the cycle.
C15_FailedCycleDiscarded ==
    [][FaultStep /\ outcome' = "err"
          => processes' = processes /\ process_times' = process_times]_vars

\* ------------------------------------------------------------ C16, C17
\* Executable paths and window titles pretty_process_name is called with:
\* those of its unit test (src/processes.rs:211-234), one of each special
\* case, a name with an empty segment between two separators, and titles
\* that are empty or end in the separator.
PrettyPaths ==
    {"chrome.exe", "Discord.exe", "LegionFanControl.exe", "Microsoft.SharePoint.exe",
     "process-tracker.exe", "Razer Central.exe", "ShareX.exe", "wallpaper32.exe",
     "ui32.exe", "Spotify.exe", "C:\\x\\datagrip64.exe", "a..b.exe", ""}
PrettyTitles ==
    {"", "ShareX", "Jay3 - Twitch - Google Chrome", "#general | Lurkr Support - Discord",
     "LegionFanControl", "Wallpaper UI", " - ", "x - "}

InitPretty ==
    /\ IdleInit
    /\ pt_interval = EnvUnset
    /\ call_args \in [path : PrettyPaths, title : PrettyTitles]
    /\ call_result = ""
    /\ call_pc = "call"

\* One call of pretty_process_name.
CallPretty ==
    /\ call_pc = "call"
    /\ call_result' = pretty_process_name(call_args.path, call_args.title)
    /\ call_pc' = "return"
    /\ UNCHANGED <<ledger_vars, agg_vars, pt_interval, outcome, call_args>>

NextPretty == CallPretty

SpecPretty == InitPretty /\ [][NextPretty]_vars

\* C16: the pure stages cannot fail: for every path and every window title,
\* an empty title and a name with empty segments included, the normalizer
\* returns a value and does not reach a panic.
C16_NormalizerReturns ==
    call_pc = "return" => call_result # Panicked

\* C17: with no window title the normalizer returns "Chrome" for
\* "chrome.exe", "Microsoft SharePoint" for "Microsoft.SharePoint.exe",
\* "Process Tracker" for "process-tracker.exe", "ShareX" for "ShareX.exe" and
\* "Wallpaper32" for "wallpaper32.exe".
C17_NamesFromPath ==
    (call_pc = "return" /\ call_args.title = "") =>
        /\ call_args.path = "chrome.exe" => call_result = "Chrome"
        /\ call_args.path = "Microsoft.SharePoint.exe" => call_result = "Microsoft SharePoint"
        /\ call_args.path = "process-tracker.exe" => call_result = "Process Tracker"
        /\ call_args.path = "ShareX.exe" => call_result = "ShareX"
        /\ call_args.path = "wallpaper32.exe" => call_result = "Wallpaper32"

\* -------------------------------------------------------------- C18
\* The window list shows the name at more than one executable path.
divergent_paths(windows, name) ==
    \E i, j \in DOMAIN windows :
        /\ windows[i].title = name
        /\ windows[j].title = name
        /\ windows[i].path # windows[j].path

\* The aggregation of src/main.rs keeps, for every name, the path of the
\* first relevant process of that name (an invariant of SpecAgg).
FirstSeenPathKept ==
    \A i \in DOMAIN agg_list :
        LET first == CHOOSE k \in relevant(agg_index) :
                         /\ system_processes[k].name = agg_list[i].name
                         /\ \A j \in relevant(agg_index) :
                                system_processes[j].name = agg_list[i].name => k <= j
        IN  agg_list[i].path = system_processes[first].path

\* C18: when the snapshot shows one identity at several executable paths,
\* the ledger update accrues that identity exactly once in the cycle.  Read
\* on the ledger for an identity whose recorded path is one of those paths
\* and whose record is less than an hour old: the cycle adds the increment
\* of get_new_running_time to its cumulative running time, once, and writes
\* nothing else for it.
C18_DivergentPathsAccrueOnce ==
    [][\A name \in Titles : \A windows \in WindowLists(MaxWindows) :
          ( /\ PollStep
            /\ process_list' = get_process_list(windows)
            /\ divergent_paths(windows, name)
            /\ has_entry(processes, name)
            /\ \E i \in DOMAIN windows :
                   /\ windows[i].title = name
                   /\ windows[i].path = identity_record(processes, name).path
            /\ now - last_updated_at(processes, process_times, name) < HOUR )
          => /\ cumulative_running_time(processes', process_times', name)
                  = get_new_running_time(last_updated_at(processes, process_times, name),
                                         cumulative_running_time(processes, process_times, name),
                                         now)
             /\ Cardinality(time_records(processes', process_times', name))
                  = Cardinality(time_records(processes, process_times, name))]_vars

\* -------------------------------------------------------------- C19
\* C19: the ledger never credits more than the wall-clock time: after a cycle
\* that accrues an identity, its cumulative running time is at most the time
\* of that cycle minus the time its entry was first created.
C19_NeverOverCredits ==
    [][\A name \in Titles :
          ( /\ PollStep
            /\ has_entry(processes, name)
            /\ accrues(processes, process_times, now, process_list', name) )
          => cumulative_running_time(processes', process_times', name)
                 <= now - identity_record(processes, name).created_at]_vars

\* -------------------------------------------------------------- C20
\* The system clock is not monotonic: between two cycles it may be set back
\* (by the user or by a time synchronisation).
ClockSteps == {5, HOUR}

InitClock ==
    /\ query_interval = 10
    /\ pt_interval = EnvUnset
    /\ now = 0
    /\ processes = <<>>
    /\ process_times = <<>>
    /\ process_list = <<>>
    /\ cycles = 0
    /\ pc = "poll"
    /\ system_processes = <<>>
    /\ agg_index = 0
    /\ agg_list = <<>>
    /\ outcome = "ok"
    /\ call_args \in [overflow_checks : BOOLEAN]
    /\ call_result = <<>>
    /\ call_pc = "return"

\* The found result rows, in cursor order, for which the subtraction of
\* get_new_running_time goes below zero.
underflows(procs, times, t, list) ==
    LET rows == rows_in_order(found_processes(procs, times, t, list))
    IN  {k \in 1..Len(rows) : t < rows[k].created_at}

\* One cycle.  `now - created_at` below zero wraps in a build without
\* overflow checks (release profile) and panics with "attempt to subtract
\* with overflow" in a build with them (debug profile), after the UPDATEs of
\* the rows before.
ClockPoll ==
    /\ pc = "poll"
    /\ cycles < MaxCycles
    /\ \E list \in ProcessLists :
        LET under == underflows(processes, process_times, now, list)
        IN  /\ process_list' = list
            /\ IF under # {} /\ call_args.overflow_checks
               THEN LET rows == rows_in_order(found_processes(processes, process_times, now, list))
                        k == CHOOSE i \in under : \A j \in under : i <= j
                        done == update_rows(SubSeq(rows, 1, k - 1), 1, process_times, now, MaxWrites)
                    IN  /\ process_times' = done.process_times
                        /\ processes' = processes
                        /\ outcome' = "panic"
                        /\ pc' = "aborted"
               ELSE LET db == update_processes(processes, process_times, now, list)
                    IN  /\ processes' = db.processes
                        /\ process_times' = db.process_times
                        /\ outcome' = "ok"
                        /\ pc' = "sleep"
    /\ cycles' = cycles + 1
    /\ UNCHANGED <<query_interval, now>>
    /\ UNCHANGED <<agg_vars, pt_interval, call_args, call_result, call_pc>>

\* The clock advances until the next cycle.
ClockForward ==
    /\ pc = "sleep"
    /\ cycles < MaxCycles
    /\ \E gap \in ClockSteps : now' = now + gap
    /\ pc' = "poll"
    /\ UNCHANGED <<query_interval, processes, process_times, process_list, cycles>>
    /\ UNCHANGED <<agg_vars, aux_vars>>

\* The clock is set back before the next cycle.
ClockBack ==
    /\ pc = "sleep"
    /\ cycles < MaxCycles
    /\ \E gap \in ClockSteps : now' = now - gap
    /\ pc' = "poll"
    /\ UNCHANGED <<query_interval, processes, process_times, process_list, cycles>>
    /\ UNCHANGED <<agg_vars, aux_vars>>

NextClock == ClockPoll \/ ClockForward \/ ClockBack

SpecClock == InitClock /\ [][NextClock]_vars

\* C20: the elapsed-time subtraction never underflows: whenever a cycle calls
\* get_new_running_time, now is at least the persisted timestamp, also after
\* the clock has moved backwards, and the cycle does not abort.
C20_NoUnderflow ==
    [][FaultStep =>
          /\ \A lp \in found_processes(processes, process_times, now, process_list') :
                 now >= lp.created_at
          /\ outcome' # "panic"]_vars

====
